---- MODULE Spec2Model ----
(***************************************************************************)
(* State-machine model of ETL/Scripts/data_pipeline.py: the batch cleaning *)
(* pipeline (ingest, validate, four cleaning stages, persist, archive)     *)
(* together with the working directory, the archive directory, the SQLite  *)
(* table and the snapshot CSV it reads and writes.                         *)
(*                                                                         *)
(* A cell of a table is a record: an integer or half-integer number        *)
(* (n / d with d in {1, 2}), a string, or NaN (an absent value).           *)
(***************************************************************************)
EXTENDS Integers, Sequences, FiniteSets, TLC

VARIABLES
    today,      \* datetime.now().strftime("%Y%m%d"), as a day number
    cwd,        \* files of the working directory: file name -> corpus index
    archive,    \* files of archive_dir: file name -> corpus index
    store,      \* the SQLite table: [exists, cols, rows]
    snapshot,   \* the snapshot CSV of the last run: [exists, cols, rows]
    pc,         \* the statement of data_pipeline that runs next
    mode,       \* "pipeline": data_pipeline runs; "call": one function is called
    name,       \* data_pipeline's file_path argument (a file name under ./)
    tagged,     \* file_path_date, the name ingest_data returns
    df,         \* the DataFrame threaded through the stages
    prev,       \* the DataFrame the last step was given
    last,       \* the step that ran last
    schema,     \* the header row of schema_file
    err,        \* the exception that ended the run, or NoError
    pre,        \* the files, table and snapshot as they were when the run began
    loads,      \* history: the corpus index of every file whose rows to_sql appended
    runs        \* number of runs started

vars == <<today, cwd, archive, store, snapshot, pc, mode, name, tagged, df,
          prev, last, schema, err, pre, loads, runs>>

(***************************************************************************)
(* Bounds of the model.                                                    *)
(***************************************************************************)
MaxRows == 4
MaxDay == 2
MaxRuns == 2

(***************************************************************************)
(* Cells, columns and tables.                                              *)
(***************************************************************************)
Num(i) == [k |-> "num", n |-> i, d |-> 1, s |-> ""]
Str(x) == [k |-> "str", n |-> 0, d |-> 1, s |-> x]
NaN == [k |-> "nan", n |-> 0, d |-> 1, s |-> ""]
\* x / 2 as a cell: what the mean of two integers is.
Half(x) == IF x % 2 = 0 THEN Num(x \div 2) ELSE [k |-> "num", n |-> x, d |-> 2, s |-> ""]

IsNull(c) == c.k = "nan"

PowerCol == "Power Consumption (kW)"
TempCol == "Temperature (C)"
StatusCol == "Status"

Range(s) == {s[i] : i \in DOMAIN s}

\* The subsequence of s of the elements that satisfy Keep, in order.
RECURSIVE SelectIdx(_, _, _)
SelectIdx(s, keep, i) ==
    IF i > Len(s) THEN <<>>
    ELSE (IF i \in keep THEN <<s[i]>> ELSE <<>>) \o SelectIdx(s, keep, i + 1)

\* The values of column c, row by row.
Column(frame, c) == [i \in DOMAIN frame.rows |-> frame.rows[i][c]]

\* The non-null numbers of column c (all of denominator 1 before imputation).
Present(frame, c) == SelectIdx(Column(frame, c),
                               {i \in DOMAIN frame.rows : ~IsNull(frame.rows[i][c])}, 1)

\* Ascending sort of a sequence of integers (insertion sort).
RECURSIVE Insert(_, _)
Insert(x, s) ==
    IF s = <<>> THEN <<x>>
    ELSE IF x <= Head(s) THEN <<x>> \o s
    ELSE <<Head(s)>> \o Insert(x, Tail(s))
RECURSIVE SortInts(_)
SortInts(s) == IF s = <<>> THEN <<>> ELSE Insert(Head(s), SortInts(Tail(s)))

Nums(cells) == [i \in DOMAIN cells |-> cells[i].n]

(***************************************************************************)
(* The DataFrame pandas builds from the table a file holds, with the dtype *)
(* it infers for each column, and DataFrame.to_csv(index=False) back.      *)
(***************************************************************************)
InferDtype(rows, c) ==
    IF rows = <<>> THEN "object"
    ELSE IF \E i \in DOMAIN rows : rows[i][c].k = "str" THEN "object"
    ELSE IF \E i \in DOMAIN rows : rows[i][c].k = "nan" THEN "float64"
    ELSE "int64"

ReadCsv(bytes) ==
    [cols |-> bytes.cols,
     dtype |-> [c \in Range(bytes.cols) |-> InferDtype(bytes.rows, c)],
     rows |-> bytes.rows]

ToCsv(frame) == [cols |-> frame.cols, rows |-> frame.rows]

NoFrame == [cols |-> <<>>, dtype |-> <<>>, rows |-> <<>>]

IsNumeric(frame, c) == frame.dtype[c] \in {"float64", "int64"}

\* The rows of frame whose index is in keep (boolean-mask indexing).
Filter(frame, keep) == [frame EXCEPT !.rows = SelectIdx(frame.rows, keep, 1)]

(***************************************************************************)
(* Exceptions.  kind names the raise statement that ended the run.         *)
(***************************************************************************)
Err(kind) == [kind |-> kind, missing |-> {}, extra |-> {}, column |-> ""]
NoError == Err("none")

(***************************************************************************)
(* Step 2: validate_dataframe_columns.                                     *)
(***************************************************************************)
\* A validator that reports the two differences under each other's name.
validate_swapped(dataframe, expected_columns) ==
    LET missing_in_dataframe == Range(dataframe.cols) \ Range(expected_columns)
        extra_in_dataframe == Range(expected_columns) \ Range(dataframe.cols)
    IN IF missing_in_dataframe # {} \/ extra_in_dataframe # {}
       THEN [kind |-> "SchemaMismatch", missing |-> missing_in_dataframe,
             extra |-> extra_in_dataframe, column |-> ""]
       ELSE [kind |-> "none", missing |-> {}, extra |-> {}, column |-> ""]

validate_dataframe_columns(dataframe, expected_columns) ==
    LET actual_columns == dataframe.cols
        missing_in_dataframe == Range(expected_columns) \ Range(actual_columns)
        extra_in_dataframe == Range(actual_columns) \ Range(expected_columns)
    IN IF missing_in_dataframe # {} \/ extra_in_dataframe # {}
       THEN [Err("SchemaMismatch") EXCEPT !.missing = missing_in_dataframe,
                                          !.extra = extra_in_dataframe]
       ELSE NoError

(***************************************************************************)
(* Step 3: drop_high_missingness (threshold 0.5, compared as 2 * nulls > n;*)
(* the mean of no rows is NaN and NaN > 0.5 is false).                     *)
(***************************************************************************)
NullCount(frame, c) == Cardinality({i \in DOMAIN frame.rows : IsNull(frame.rows[i][c])})

columns_to_drop(frame) ==
    {c \in Range(frame.cols) :
        /\ Len(frame.rows) > 0
        /\ 2 * NullCount(frame, c) > Len(frame.rows)}

DropColumns(frame, drop) ==
    LET keep == Range(frame.cols) \ drop
    IN [cols |-> SelectIdx(frame.cols, {i \in DOMAIN frame.cols : frame.cols[i] \in keep}, 1),
        dtype |-> [c \in keep |-> frame.dtype[c]],
        rows |-> [i \in DOMAIN frame.rows |-> [c \in keep |-> frame.rows[i][c]]]]

drop_high_missingness(frame) == DropColumns(frame, columns_to_drop(frame))

(***************************************************************************)
(* Step 4: remove_outliers.  Series.quantile drops NaN and interpolates    *)
(* linearly at position q * (n - 1) of the sorted values; Quantile4 is     *)
(* four times that value, so the arithmetic stays in the integers.  The    *)
(* bounds Q1 - 1.5 * IQR and Q3 + 1.5 * IQR are compared scaled by 8.      *)
(***************************************************************************)
Quantile4(sorted, quarters) ==
    LET n == Len(sorted)
        pos4 == quarters * (n - 1)
        i == (pos4 \div 4) + 1
        r == pos4 % 4
    IN IF r = 0 THEN 4 * sorted[i]
       ELSE 4 * sorted[i] + (sorted[i + 1] - sorted[i]) * r

\* A filter that lets a row without a value in column pass.
WithinBounds_KeepNull(frame, column) ==
    LET sorted == SortInts(Nums(Present(frame, column)))
    IN IF sorted = <<>> THEN DOMAIN frame.rows
       ELSE LET Q1 == Quantile4(sorted, 1)
                Q3 == Quantile4(sorted, 3)
                IQR == Q3 - Q1
            IN {i \in DOMAIN frame.rows :
                   \/ IsNull(frame.rows[i][column])
                   \/ /\ 8 * frame.rows[i][column].n >= 2 * Q1 - 3 * IQR
                      /\ 8 * frame.rows[i][column].n <= 2 * Q3 + 3 * IQR}

\* The row indices of frame that pass column's filter.
WithinBounds(frame, column) ==
    LET sorted == SortInts(Nums(Present(frame, column)))
    IN IF sorted = <<>> THEN {}
       ELSE LET Q1 == Quantile4(sorted, 1)
                Q3 == Quantile4(sorted, 3)
                IQR == Q3 - Q1
                lower_bound == 2 * Q1 - 3 * IQR
                upper_bound == 2 * Q3 + 3 * IQR
            IN {i \in DOMAIN frame.rows :
                   /\ ~IsNull(frame.rows[i][column])
                   /\ 8 * frame.rows[i][column].n >= lower_bound
                   /\ 8 * frame.rows[i][column].n <= upper_bound}

NumericColumns(frame) ==
    SelectIdx(frame.cols, {i \in DOMAIN frame.cols : IsNumeric(frame, frame.cols[i])}, 1)

RECURSIVE OutlierLoop(_, _)
OutlierLoop(frame, columns) ==
    IF columns = <<>> THEN frame
    ELSE OutlierLoop(Filter(frame, WithinBounds(frame, Head(columns))), Tail(columns))

\* Every column's bounds taken on the frame as given, not as narrowed so far.
remove_outliers_simultaneous(frame) ==
    Filter(frame, {i \in DOMAIN frame.rows :
                      \A c \in Range(NumericColumns(frame)) : i \in WithinBounds(frame, c)})

remove_outliers(frame) == OutlierLoop(frame, NumericColumns(frame))

(***************************************************************************)
(* Step 5: check_inconsistencies.  drop_duplicates keeps the first of      *)
(* equal rows (NaN equal to NaN) and returns an empty frame as it is; the  *)
(* comparison >= 0 is false for NaN and raises TypeError on a string.      *)
(***************************************************************************)
energy_columns ==
    <<"Solar Panels Energy Output (W)", "Power Consumption (kW)",
      "Energy Stored in Batteries (kWh)", "System Load (kW)",
      "Battery Capacity (Wh)", "Inverter Capacity (kW)">>

drop_duplicates(frame) ==
    IF frame.cols = <<>> \/ frame.rows = <<>> THEN frame
    ELSE Filter(frame, {i \in DOMAIN frame.rows :
                           \A j \in 1..(i - 1) : frame.rows[j] # frame.rows[i]})

RECURSIVE EnergyLoop(_, _)
EnergyLoop(frame, columns) ==
    IF columns = <<>> THEN [err |-> NoError, df |-> frame]
    ELSE LET column == Head(columns)
         IN IF column \notin Range(frame.cols)
            THEN EnergyLoop(frame, Tail(columns))
            ELSE IF \E i \in DOMAIN frame.rows : frame.rows[i][column].k = "str"
            THEN [err |-> Err("TypeError"), df |-> frame]
            ELSE EnergyLoop(Filter(frame, {i \in DOMAIN frame.rows :
                                              /\ ~IsNull(frame.rows[i][column])
                                              /\ frame.rows[i][column].n >= 0}),
                            Tail(columns))

check_inconsistencies(frame) == EnergyLoop(drop_duplicates(frame), energy_columns)

(***************************************************************************)
(* Step 6: fill_missing_values.  Series.median is NaN when no value is     *)
(* present, and fillna(NaN) changes nothing; Series.mode()[0] is the least *)
(* of the most frequent present values, and raises KeyError (key 0) when   *)
(* none is present.                                                        *)
(***************************************************************************)
\* The lower of the two middle values instead of their mean.
Median_LowerMiddle(sorted) ==
    IF Len(sorted) = 0 THEN NaN ELSE Num(sorted[(Len(sorted) + 1) \div 2])

Median(sorted) ==
    LET n == Len(sorted)
    IN IF n = 0 THEN NaN
       ELSE IF n % 2 = 1 THEN Num(sorted[(n + 1) \div 2])
       ELSE Half(sorted[n \div 2] + sorted[(n \div 2) + 1])

StrRank == [x \in {"x", "y", "z"} |-> CASE x = "x" -> 1 [] x = "y" -> 2 [] x = "z" -> 3]

Count(cells, v) == Cardinality({i \in DOMAIN cells : cells[i] = v})

\* Series.mode(): the most frequent present values; [0] is the least of them.
Mode(cells) ==
    LET present == {cells[i] : i \in {j \in DOMAIN cells : ~IsNull(cells[j])}}
        top == {v \in present : \A w \in present : Count(cells, w) <= Count(cells, v)}
    IN CHOOSE v \in top : \A w \in top : StrRank[v.s] <= StrRank[w.s]

FillColumn(frame, column, value) ==
    [frame EXCEPT !.rows = [i \in DOMAIN frame.rows |->
        IF IsNull(frame.rows[i][column])
        THEN [frame.rows[i] EXCEPT ![column] = value]
        ELSE frame.rows[i]]]

RECURSIVE FillLoop(_, _)
FillLoop(frame, columns) ==
    IF columns = <<>> THEN [err |-> NoError, df |-> frame]
    ELSE LET column == Head(columns)
         IN IF IsNumeric(frame, column)
            THEN FillLoop(FillColumn(frame, column,
                                     Median(SortInts(Nums(Present(frame, column))))),
                          Tail(columns))
            ELSE IF Present(frame, column) = <<>>
            THEN [err |-> Err("KeyError"), df |-> frame]
            ELSE FillLoop(FillColumn(frame, column, Mode(Column(frame, column))),
                          Tail(columns))

fill_missing_values(frame) == FillLoop(frame, frame.cols)


(***************************************************************************)
(* File names.  A name is stem [_date]* . ext [. ext]*: split('.')[0] is   *)
(* the stem with its date tags, split('.')[1] is exts[1].                  *)
(***************************************************************************)
FileName(stem, exts) == [stem |-> stem, dates |-> <<>>, exts |-> exts]

EndsWith(file, ext) == Len(file.exts) >= 1 /\ file.exts[Len(file.exts)] = ext

\* file_name.split('.')[0] + "_" + today + '.' + file_name.split('.')[1]
file_name_date(file, day) ==
    [stem |-> file.stem, dates |-> Append(file.dates, day), exts |-> <<file.exts[1]>>]

NoFile == [stem |-> "", dates |-> <<>>, exts |-> <<>>]
NoFiles == [f \in {} |-> 0]

Remove(files, f) == [g \in (DOMAIN files) \ {f} |-> files[g]]
Put(files, f, c) == [g \in (DOMAIN files) \cup {f} |-> IF g = f THEN c ELSE files[g]]

(***************************************************************************)
(* The files the model is run on.  The bytes of a file are a table written *)
(* as CSV text or as an Excel workbook: the same table in the two formats  *)
(* is two different byte strings.  Corpus lists the contents; a directory  *)
(* maps a file name to an index of Corpus.                                 *)
(***************************************************************************)
Row2(c1, v1, c2, v2) == (c1 :> v1) @@ (c2 :> v2)

CsvText(cols, rows) == [format |-> "csv", cols |-> cols, rows |-> rows]
Workbook(cols, rows) == [format |-> "xlsx", cols |-> cols, rows |-> rows]

Corpus ==
    << \* cleans to two rows
       CsvText(<<PowerCol, StatusCol>>,
               <<Row2(PowerCol, Num(1), StatusCol, Str("x")),
                 Row2(PowerCol, Num(0), StatusCol, Str("y"))>>),
       \* the only row with a Status has a negative reading
       CsvText(<<PowerCol, StatusCol>>,
               <<Row2(PowerCol, Num(-1), StatusCol, Str("x")),
                 Row2(PowerCol, Num(0), StatusCol, NaN)>>),
       \* another column set than the schema's
       CsvText(<<PowerCol, TempCol>>,
               <<Row2(PowerCol, Num(1), TempCol, Num(0))>>),
       \* Status is missing in every row and is dropped
       CsvText(<<StatusCol, PowerCol>>,
               <<Row2(PowerCol, Num(1), StatusCol, NaN)>>),
       \* every cell is empty: both columns are dropped, the row stays
       CsvText(<<PowerCol, StatusCol>>,
               <<Row2(PowerCol, NaN, StatusCol, NaN)>>),
       \* a numeric Status; the only row has a negative reading
       CsvText(<<PowerCol, StatusCol>>,
               <<Row2(PowerCol, Num(-1), StatusCol, Num(0))>>),
       \* the power reading is text, so the column is read as object
       CsvText(<<PowerCol, StatusCol>>,
               <<Row2(PowerCol, Str("z"), StatusCol, Str("x"))>>),
       \* the first table as a workbook
       Workbook(<<PowerCol, StatusCol>>,
                <<Row2(PowerCol, Num(1), StatusCol, Str("x")),
                  Row2(PowerCol, Num(0), StatusCol, Str("y"))>>) >>

Contents == DOMAIN Corpus

OriginalNames ==
    {FileName("a", <<"csv">>), FileName("a", <<"xlsx">>),
     FileName("a", <<"txt">>), FileName("a", <<"v2", "csv">>)}

(***************************************************************************)
(* md5_hash and Step 0: check_if_file_processed.                           *)
(***************************************************************************)
None == <<"None">>

Md5(bytes) == <<"md5", bytes>>

md5_hash(files, file_path) ==
    IF file_path \in DOMAIN files THEN Md5(Corpus[files[file_path]]) ELSE None

\* A gate that looks for the file's name in the archive instead of its hash.
check_by_name(arch, files, file_path) == file_path \in DOMAIN arch

check_if_file_processed(arch, files, file_path) ==
    LET target_hash == md5_hash(files, file_path)
    IN IF target_hash = None THEN FALSE
       ELSE \E file_in_dir \in DOMAIN arch : md5_hash(arch, file_in_dir) = target_hash

(***************************************************************************)
(* The two readers of ingest_data.  pd.read_csv raises on the bytes of a   *)
(* workbook (a zip container, not text) and pd.read_excel on CSV text (no  *)
(* Excel format can be determined).                                        *)
(***************************************************************************)
read_csv(bytes) ==
    IF bytes.format = "csv" THEN [err |-> NoError, df |-> ReadCsv(bytes)]
    ELSE [err |-> Err("UnicodeDecodeError"), df |-> NoFrame]

read_excel(bytes) ==
    IF bytes.format = "xlsx" THEN [err |-> NoError, df |-> ReadCsv(bytes)]
    ELSE [err |-> Err("ExcelFormatError"), df |-> NoFrame]

(***************************************************************************)
(* Step 1: ingest_data.  The result holds the exception raised (or none),  *)
(* the working directory after os.rename (which replaces a file of the     *)
(* target name, as on POSIX), the tagged name and the DataFrame read.      *)
(***************************************************************************)
ingest_data(files, arch, file, day) ==
    LET stay == [err |-> NoError, cwd |-> files, tagged |-> NoFile, df |-> NoFrame]
    IN IF ~(EndsWith(file, "csv") \/ EndsWith(file, "xlsx"))
       THEN [stay EXCEPT !.err = Err("UnsupportedFormat")]
       ELSE IF file \notin DOMAIN files
       THEN [stay EXCEPT !.err = Err("FileNotFoundError")]
       ELSE LET dated == file_name_date(file, day)
                renamed == Put(Remove(files, file), dated, files[file])
                moved == [stay EXCEPT !.cwd = renamed, !.tagged = dated]
            IN IF check_if_file_processed(arch, renamed, dated)
               THEN [moved EXCEPT !.err = Err("DuplicateInput")]
               ELSE IF EndsWith(dated, "csv")
               THEN [moved EXCEPT !.df = read_csv(Corpus[renamed[dated]]).df,
                                  !.err = read_csv(Corpus[renamed[dated]]).err]
               ELSE IF EndsWith(dated, "xlsx")
               THEN [moved EXCEPT !.df = read_excel(Corpus[renamed[dated]]).df,
                                  !.err = read_excel(Corpus[renamed[dated]]).err]
               ELSE [moved EXCEPT !.err = Err("UnboundLocalError")]

(***************************************************************************)
(* Step 7: load_and_save_data.  to_sql(if_exists='append') creates the     *)
(* table from the frame's columns when there is none, which SQLite rejects *)
(* for an empty column list; a frame without rows inserts nothing; any     *)
(* other frame is inserted with its column list, which SQLite rejects when *)
(* the list is empty or names a column the table lacks.  to_csv replaces   *)
(* the snapshot.                                                           *)
(***************************************************************************)
NoTable == [exists |-> FALSE, cols |-> <<>>, rows |-> <<>>]

to_sql(table, frame) ==
    IF ~table.exists
    THEN IF frame.cols = <<>>
         THEN [err |-> Err("OperationalError"), table |-> table]
         ELSE [err |-> NoError,
               table |-> [exists |-> TRUE, cols |-> frame.cols, rows |-> frame.rows]]
    ELSE IF frame.rows = <<>>
    THEN [err |-> NoError, table |-> table]
    ELSE IF frame.cols = <<>> \/ ~(Range(frame.cols) \subseteq Range(table.cols))
    THEN [err |-> Err("OperationalError"), table |-> table]
    ELSE [err |-> NoError,
          table |-> [table EXCEPT !.rows = table.rows \o
              [i \in DOMAIN frame.rows |->
                  [c \in Range(table.cols) |->
                      IF c \in Range(frame.cols) THEN frame.rows[i][c] ELSE NaN]]]]

\* csvOk: whether the write of the snapshot file succeeds.
load_and_save_data(frame, table, snap, csvOk) ==
    LET sql == to_sql(table, frame)
    IN IF sql.err # NoError THEN [err |-> sql.err, store |-> table, snapshot |-> snap]
       ELSE IF ~csvOk THEN [err |-> Err("OSError"), store |-> sql.table, snapshot |-> snap]
       ELSE [err |-> NoError, store |-> sql.table,
             snapshot |-> [exists |-> TRUE, cols |-> ToCsv(frame).cols,
                           rows |-> ToCsv(frame).rows]]

(***************************************************************************)
(* Step 8: archive_file.  shutil.move replaces a file of the same name in  *)
(* archive_dir; an exception of the move is caught and printed.            *)
(***************************************************************************)
\* moveOk: whether shutil.move succeeds.
archive_file(files, arch, file_path, moveOk) ==
    IF file_path \notin DOMAIN files THEN [cwd |-> files, archive |-> arch]
    ELSE IF ~moveOk THEN [cwd |-> files, archive |-> arch]
    ELSE [cwd |-> Remove(files, file_path),
          archive |-> Put(arch, file_path, files[file_path])]


(***************************************************************************)
(* data_pipeline: the order of the steps.  A function called on its own    *)
(* (mode "call") returns to its caller.                                    *)
(***************************************************************************)
Stages == <<"validate", "drop", "outliers", "inconsist", "fill", "persist", "archive", "done">>

\* data_pipeline with archive_file called before load_and_save_data.
StageAfter_ArchiveFirst(stage) ==
    CASE stage = "fill" -> "archive"
      [] stage = "archive" -> "persist"
      [] stage = "persist" -> "done"
      [] OTHER -> LET i == CHOOSE j \in DOMAIN Stages : Stages[j] = stage
                  IN Stages[i + 1]

StageAfter(stage) ==
    LET i == CHOOSE j \in DOMAIN Stages : Stages[j] = stage
    IN Stages[i + 1]

NextPc(m, stage) == IF m = "call" THEN "returned" ELSE StageAfter(stage)

AtRest == pc \in {"idle", "done", "failed"}

FsUnchanged == UNCHANGED <<today, cwd, archive, store, snapshot, loads, runs, pre, name, tagged>>

(***************************************************************************)
(* The operator of the working directory, between runs: a new file is put  *)
(* under ./ and the date changes.                                          *)
(***************************************************************************)
PlaceFile ==
    /\ AtRest /\ mode = "pipeline"
    /\ runs < MaxRuns
    /\ DOMAIN cwd \cap OriginalNames = {}
    /\ \E f \in OriginalNames, c \in Contents : cwd' = Put(cwd, f, c)
    /\ UNCHANGED <<today, archive, store, snapshot, pc, mode, name, tagged, df,
                   prev, last, schema, err, pre, loads, runs>>

NextDay ==
    /\ AtRest /\ mode = "pipeline"
    /\ runs < MaxRuns
    /\ today < MaxDay
    /\ today' = today + 1
    /\ UNCHANGED <<cwd, archive, store, snapshot, pc, mode, name, tagged, df,
                   prev, last, schema, err, pre, loads, runs>>

(***************************************************************************)
(* One action per step of data_pipeline.  An exception ends the run.       *)
(***************************************************************************)
IngestData ==
    /\ AtRest /\ mode = "pipeline"
    /\ runs < MaxRuns
    /\ \E f \in OriginalNames \cup DOMAIN cwd :
          LET r == ingest_data(cwd, archive, f, today)
          IN /\ name' = f
             /\ cwd' = r.cwd
             /\ tagged' = r.tagged
             /\ df' = r.df
             /\ err' = r.err
             /\ pc' = IF r.err = NoError THEN "validate" ELSE "failed"
    /\ pre' = [cwd |-> cwd, archive |-> archive, store |-> store, snapshot |-> snapshot]
    /\ prev' = NoFrame
    /\ last' = "ingest"
    /\ runs' = runs + 1
    /\ UNCHANGED <<today, archive, store, snapshot, mode, schema, loads>>

ValidateDataframeColumns ==
    /\ pc = "validate"
    /\ LET e == validate_dataframe_columns(df, schema)
       IN /\ err' = e
          /\ pc' = IF e = NoError THEN NextPc(mode, "validate") ELSE "failed"
    /\ prev' = df
    /\ last' = "validate"
    /\ UNCHANGED <<df, mode, schema>>
    /\ FsUnchanged

DropHighMissingness ==
    /\ pc = "drop"
    /\ df' = drop_high_missingness(df)
    /\ prev' = df
    /\ last' = "drop"
    /\ pc' = NextPc(mode, "drop")
    /\ UNCHANGED <<mode, schema, err>>
    /\ FsUnchanged

RemoveOutliers ==
    /\ pc = "outliers"
    /\ df' = remove_outliers(df)
    /\ prev' = df
    /\ last' = "outliers"
    /\ pc' = NextPc(mode, "outliers")
    /\ UNCHANGED <<mode, schema, err>>
    /\ FsUnchanged

CheckInconsistencies ==
    /\ pc = "inconsist"
    /\ LET r == check_inconsistencies(df)
       IN /\ df' = r.df
          /\ err' = r.err
          /\ pc' = IF r.err = NoError THEN NextPc(mode, "inconsist") ELSE "failed"
    /\ prev' = df
    /\ last' = "inconsist"
    /\ UNCHANGED <<mode, schema>>
    /\ FsUnchanged

FillMissingValues ==
    /\ pc = "fill"
    /\ LET r == fill_missing_values(df)
       IN /\ df' = r.df
          /\ err' = r.err
          /\ pc' = IF r.err = NoError THEN NextPc(mode, "fill") ELSE "failed"
    /\ prev' = df
    /\ last' = "fill"
    /\ UNCHANGED <<mode, schema>>
    /\ FsUnchanged

LoadAndSaveData ==
    /\ pc = "persist"
    /\ \E csvOk \in BOOLEAN :
          LET r == load_and_save_data(df, store, snapshot, csvOk)
          IN /\ store' = r.store
             /\ snapshot' = r.snapshot
             /\ err' = r.err
             /\ loads' = IF r.store # store THEN Append(loads, cwd[tagged]) ELSE loads
             /\ pc' = IF r.err = NoError THEN NextPc(mode, "persist") ELSE "failed"
    /\ last' = "persist"
    /\ UNCHANGED <<today, cwd, archive, mode, name, tagged, df, prev, schema, pre, runs>>

ArchiveFile ==
    /\ pc = "archive"
    /\ \E moveOk \in BOOLEAN :
          LET r == archive_file(cwd, archive, tagged, moveOk)
          IN /\ cwd' = r.cwd
             /\ archive' = r.archive
    /\ pc' = NextPc(mode, "archive")
    /\ last' = "archive"
    /\ UNCHANGED <<today, store, snapshot, mode, name, tagged, df, prev, schema,
                   err, pre, loads, runs>>

(***************************************************************************)
(* The script: empty directories, no table, no snapshot, and the schema    *)
(* file of the deployment.                                                 *)
(***************************************************************************)
Init ==
    /\ today = 1
    /\ cwd = NoFiles
    /\ archive = NoFiles
    /\ store = NoTable
    /\ snapshot = NoTable
    /\ pc = "idle"
    /\ mode = "pipeline"
    /\ name = NoFile
    /\ tagged = NoFile
    /\ df = NoFrame
    /\ prev = NoFrame
    /\ last = "none"
    /\ schema = <<PowerCol, StatusCol>>
    /\ err = NoError
    /\ pre = [cwd |-> NoFiles, archive |-> NoFiles, store |-> NoTable, snapshot |-> NoTable]
    /\ loads = <<>>
    /\ runs = 0

Next ==
    \/ PlaceFile
    \/ NextDay
    \/ IngestData
    \/ ValidateDataframeColumns
    \/ DropHighMissingness
    \/ RemoveOutliers
    \/ CheckInconsistencies
    \/ FillMissingValues
    \/ LoadAndSaveData
    \/ ArchiveFile

Spec == Init /\ [][Next]_vars


(***************************************************************************)
(* The cleaning functions on every table within the bounds: each function  *)
(* called on its own, and the steps 2 to 6 of data_pipeline in order, on   *)
(* the DataFrame read from any file of up to MaxRows rows.  Rows are       *)
(* enumerated up to their order, which no step depends on.                 *)
(***************************************************************************)
Layouts ==
    {<<PowerCol>>, <<StatusCol>>,
     <<PowerCol, TempCol>>, <<TempCol, PowerCol>>,
     <<PowerCol, StatusCol>>, <<StatusCol, PowerCol>>,
     <<StatusCol, TempCol>>}

CellSeq(c) ==
    CASE c = PowerCol -> <<Num(-1), Num(0), Num(1), NaN>>
      [] c = TempCol -> <<Num(0), Num(1), NaN>>
      [] c = StatusCol -> <<Str("x"), Str("y"), NaN>>

RECURSIVE RowCount(_)
RowCount(layout) ==
    IF layout = <<>> THEN 1 ELSE Len(CellSeq(Head(layout))) * RowCount(Tail(layout))

\* The k-th row over layout (k from 0), its cells the digits of k.
RECURSIVE RowAt(_, _)
RowAt(layout, k) ==
    IF layout = <<>> THEN [c \in {} |-> NaN]
    ELSE LET c == Head(layout)
             m == Len(CellSeq(c))
         IN (c :> CellSeq(c)[(k % m) + 1]) @@ RowAt(Tail(layout), k \div m)

\* The non-decreasing sequences of n numbers in lo..hi.
RECURSIVE NonDecreasing(_, _, _)
NonDecreasing(n, lo, hi) ==
    IF n = 0 THEN {<<>>}
    ELSE UNION {{<<k>> \o t : t \in NonDecreasing(n - 1, k, hi)} : k \in lo..hi}

AllContents ==
    UNION {UNION {{CsvText(layout, [i \in 1..n |-> RowAt(layout, t[i])]) :
                      t \in NonDecreasing(n, 0, RowCount(layout) - 1)} :
                  n \in 0..MaxRows} :
           layout \in Layouts}

DataInit ==
    /\ today = 1
    /\ cwd = NoFiles
    /\ archive = NoFiles
    /\ store = NoTable
    /\ snapshot = NoTable
    /\ name = NoFile
    /\ tagged = NoFile
    /\ pre = [cwd |-> NoFiles, archive |-> NoFiles, store |-> NoTable, snapshot |-> NoTable]
    /\ loads = <<>>
    /\ runs = 0
    /\ err = NoError
    /\ prev = NoFrame
    /\ last = "none"
    /\ \E bytes \in AllContents :
          /\ df = ReadCsv(bytes)
          /\ \/ /\ mode = "pipeline"
                /\ pc = "validate"
                /\ schema = bytes.cols
             \/ /\ mode = "call"
                /\ pc = "validate"
                /\ schema \in Layouts
             \/ /\ mode = "call"
                /\ pc \in {"drop", "outliers", "inconsist", "fill"}
                /\ schema = bytes.cols

DataNext ==
    \/ ValidateDataframeColumns
    \/ DropHighMissingness
    \/ RemoveOutliers
    \/ CheckInconsistencies
    \/ FillMissingValues

DataSpec == DataInit /\ [][DataNext]_vars


(***************************************************************************)
(* Properties of the ingestion gate, persistence and archival (Spec).      *)
(***************************************************************************)
SupportedName(f) == EndsWith(f, "csv") \/ EndsWith(f, "xlsx")

\* The run was given an existing file whose bytes equal those of an archived file.
InputAlreadyArchived ==
    /\ mode = "pipeline" /\ runs > 0
    /\ name \in DOMAIN pre.cwd
    /\ \E g \in DOMAIN pre.archive : Corpus[pre.archive[g]] = Corpus[pre.cwd[name]]

EndedInDuplicateInput ==
    /\ pc = "failed" /\ err.kind = "DuplicateInput"
    /\ store = pre.store
    /\ snapshot = pre.snapshot

\* C1, as claimed: a run on any input file whose bytes equal those of a file
\* of the archive ends in DuplicateInput, without a write to the table or the
\* snapshot.
C1_AnyDuplicateRejected == InputAlreadyArchived => EndedInDuplicateInput

\* C1, amended: a run on an input file named *.csv or *.xlsx whose bytes equal
\* those of a file of the archive ends in DuplicateInput, without a write to the
\* table or the snapshot.
C1_DuplicateRejected ==
    (InputAlreadyArchived /\ SupportedName(name)) => EndedInDuplicateInput

C1_Witness ==
    /\ InputAlreadyArchived /\ SupportedName(name)
    /\ last = "ingest" /\ err.kind = "DuplicateInput"
    /\ store.exists /\ snapshot.exists

\* C2: a run that ends in DuplicateInput has changed nothing: the input file is
\* where it was under its own name, and the archive, the table and the snapshot
\* are as before the run.
C2_DuplicateAbortsBeforeMutation ==
    [][(runs' = runs + 1 /\ err'.kind = "DuplicateInput")
         => (cwd' = cwd /\ archive' = archive /\ store' = store /\ snapshot' = snapshot)]_vars

\* The run has appended df to the table and written it as the snapshot.
Persisted ==
    /\ snapshot.exists /\ snapshot.cols = df.cols /\ snapshot.rows = df.rows
    /\ store.exists
    /\ Len(store.rows) = Len(pre.store.rows) + Len(df.rows)
    /\ \A i \in DOMAIN df.rows : \A c \in Range(df.cols) :
          store.rows[Len(pre.store.rows) + i][c] = df.rows[i][c]

\* C3: archive_file runs last, after both writes of load_and_save_data; a run
\* that validation, a cleaning stage or persistence ends leaves the archive as
\* it was, and its input is not found processed afterwards.
C3_ArchiveAfterPersistence ==
    /\ pc = "archive" => Persisted
    /\ archive # pre.archive => (pc = "done" /\ last = "archive" /\ Persisted)
    /\ (pc = "failed" /\ last \in {"validate", "drop", "outliers", "inconsist", "fill", "persist"})
         => /\ archive = pre.archive
            /\ tagged \in DOMAIN cwd
            /\ \A g \in DOMAIN archive : Corpus[archive[g]] # Corpus[cwd[tagged]]

C3_Witness ==
    /\ pc = "done" /\ tagged \in DOMAIN archive /\ archive # pre.archive
    /\ Len(df.rows) > 0

\* C4: the rows of a file content are appended to the table at most once, over
\* any sequence of runs.
C4_ContentLoadedAtMostOnce ==
    \A c \in Contents : Cardinality({i \in DOMAIN loads : loads[i] = c}) <= 1

\* C9: a content that is in the archive stays in the archive.
C9_ArchiveOnlyGrows ==
    [][\A g \in DOMAIN archive : \E h \in DOMAIN archive' :
          Corpus[archive'[h]] = Corpus[archive[g]]]_vars


(***************************************************************************)
(* Properties of the validator and the cleaning functions (DataSpec).      *)
(* Order statistics are stated by rank, not by sorting: the k-th smallest  *)
(* of the values vals[i], i in I, is the x with fewer than k values below  *)
(* it and at least k values not above it.                                  *)
(***************************************************************************)
KthSmallest(vals, I, k) ==
    CHOOSE x \in {vals[i] : i \in I} :
        /\ Cardinality({i \in I : vals[i] < x}) < k
        /\ Cardinality({i \in I : vals[i] <= x}) >= k

\* Four times the quantile at quarters/4, by linear interpolation between ranks.
RankQuantile4(vals, I, quarters) ==
    LET pos4 == quarters * (Cardinality(I) - 1)
        lo == (pos4 \div 4) + 1
    IN IF pos4 % 4 = 0 THEN 4 * KthSmallest(vals, I, lo)
       ELSE (4 - (pos4 % 4)) * KthSmallest(vals, I, lo)
            + (pos4 % 4) * KthSmallest(vals, I, lo + 1)

\* v lies in [Q1 - 1.5 * IQR, Q3 + 1.5 * IQR] of the values vals[i], i in I.
InIqrBounds(v, vals, I) ==
    LET q1 == RankQuantile4(vals, I, 1)
        q3 == RankQuantile4(vals, I, 3)
    IN /\ 8 * v >= 2 * q1 - 3 * (q3 - q1)
       /\ 8 * v <= 2 * q3 + 3 * (q3 - q1)

ColumnNums(frame, c) == [i \in DOMAIN frame.rows |-> frame.rows[i][c].n]

\* The rows of frame (by index) that survive the filters of its first k
\* numeric columns, each filter's bounds taken over the survivors so far.
RECURSIVE Survivors(_, _)
Survivors(frame, k) ==
    IF k = 0 THEN DOMAIN frame.rows
    ELSE LET S == Survivors(frame, k - 1)
             c == NumericColumns(frame)[k]
             I == {i \in S : ~IsNull(frame.rows[i][c])}
         IN {i \in I : InIqrBounds(frame.rows[i][c].n, ColumnNums(frame, c), I)}

\* C5: validation fails exactly when the column sets differ, with
\* missing = expected \ actual and extra = actual \ expected; when they are
\* equal it raises nothing, and it never changes the dataset.
C5_SchemaMismatchExact ==
    last = "validate" =>
        LET A == Range(df.cols)
            E == Range(schema)
        IN /\ df = prev
           /\ A # E => /\ pc = "failed" /\ err.kind = "SchemaMismatch"
                       /\ err.missing = {c \in E : c \notin A}
                       /\ err.extra = {c \in A : c \notin E}
           /\ A = E => pc # "failed" /\ err = NoError

C5_Witness ==
    /\ last = "validate" /\ pc = "failed"
    /\ err.missing = {StatusCol} /\ err.extra = {TempCol}

\* C6: fill_missing_values, given a column without any present value, fails
\* with ImputationImpossible naming the first such column.
C6_ImputationImpossible ==
    (last = "fill" /\ \E c \in Range(prev.cols) : Present(prev, c) = <<>>)
        => LET k == CHOOSE j \in DOMAIN prev.cols :
                       /\ Present(prev, prev.cols[j]) = <<>>
                       /\ \A h \in 1..(j - 1) : Present(prev, prev.cols[h]) # <<>>
           IN /\ pc = "failed"
              /\ err.kind = "ImputationImpossible"
              /\ err.column = prev.cols[k]

\* C7: remove_outliers keeps exactly the rows that pass, for each numeric
\* column from left to right, the IQR bounds computed over the rows that passed
\* the columns before it; other columns filter nothing.
C7_SequentialIqrBounds ==
    last = "outliers" =>
        LET K == Len(NumericColumns(prev))
        IN /\ df.cols = prev.cols /\ df.dtype = prev.dtype
           /\ df.rows = SelectIdx(prev.rows, Survivors(prev, K), 1)
           /\ \A k \in 1..K : \A i \in DOMAIN df.rows :
                 LET c == NumericColumns(prev)[k]
                     S == Survivors(prev, k - 1)
                 IN /\ ~IsNull(df.rows[i][c])
                    /\ InIqrBounds(df.rows[i][c].n, ColumnNums(prev, c),
                                   {j \in S : ~IsNull(prev.rows[j][c])})

\* A row is kept although it lies outside the bounds of its column taken over
\* all rows given: the bounds that count are those over the narrowed rows.
C7_Witness ==
    /\ last = "outliers" /\ Len(df.rows) < Len(prev.rows)
    /\ \E c \in Range(NumericColumns(prev)) : \E i \in DOMAIN df.rows :
          /\ ~IsNull(df.rows[i][c])
          /\ ~InIqrBounds(df.rows[i][c].n, ColumnNums(prev, c),
                          {j \in DOMAIN prev.rows : ~IsNull(prev.rows[j][c])})

\* Twice the number in a cell.
Twice(cell) == IF cell.d = 1 THEN 2 * cell.n ELSE cell.n

\* C8: after fill_missing_values returns, a column that had a present value has
\* no absent one: a numeric column's absent cells hold the median of the
\* present values, another column's a most frequent present value, and the
\* present cells are as they were.
C8_ImputationFills ==
    (last = "fill" /\ pc # "failed") =>
        /\ df.cols = prev.cols /\ Len(df.rows) = Len(prev.rows)
        /\ \A c \in Range(prev.cols) :
              LET I == {i \in DOMAIN prev.rows : ~IsNull(prev.rows[i][c])}
                  n == Cardinality(I)
                  vals == ColumnNums(prev, c)
              IN I # {} =>
                   \A i \in DOMAIN prev.rows :
                      /\ ~IsNull(df.rows[i][c])
                      /\ i \in I => df.rows[i][c] = prev.rows[i][c]
                      /\ (i \notin I /\ IsNumeric(prev, c)) =>
                            /\ df.rows[i][c].k = "num"
                            /\ Twice(df.rows[i][c]) =
                                  KthSmallest(vals, I, (n + 1) \div 2)
                                  + KthSmallest(vals, I, (n \div 2) + 1)
                      /\ (i \notin I /\ ~IsNumeric(prev, c)) =>
                            \A j \in I :
                               Count(Column(prev, c), prev.rows[j][c])
                                  <= Count(Column(prev, c), df.rows[i][c])

C8_Witness ==
    /\ last = "fill" /\ pc = "returned"
    /\ \E c \in Range(prev.cols) : \E i \in DOMAIN prev.rows :
          /\ IsNumeric(prev, c) /\ IsNull(prev.rows[i][c])
          /\ df.rows[i][c].d = 2
    /\ \E c \in Range(prev.cols) : \E i \in DOMAIN prev.rows :
          /\ ~IsNumeric(prev, c) /\ IsNull(prev.rows[i][c])
          /\ df.rows[i][c] = Str("y")

NoNumericNull(frame) ==
    \A c \in Range(frame.cols) : \A i \in DOMAIN frame.rows :
        IsNumeric(frame, c) => ~IsNull(frame.rows[i][c])

\* C10: remove_outliers drops every row with an absent value in a numeric
\* column, so in data_pipeline the numeric columns that reach
\* fill_missing_values have no absent value and it leaves them as they are.
C10_NoNumericNullReachesFill ==
    /\ last = "outliers" =>
          /\ NoNumericNull(df)
          /\ Len(df.rows) <= Cardinality({i \in DOMAIN prev.rows :
                 \A c \in Range(prev.cols) :
                     IsNumeric(prev, c) => ~IsNull(prev.rows[i][c])})
    /\ (mode = "pipeline" /\ pc = "fill") => NoNumericNull(df)
    /\ (mode = "pipeline" /\ last = "fill") =>
          /\ NoNumericNull(prev)
          /\ \A c \in Range(prev.cols) :
                IsNumeric(prev, c) => Column(df, c) = Column(prev, c)

\* A run whose file had an absent number (the column was read as float64)
\* reaches the end of fill_missing_values with rows left.
C10_Witness ==
    /\ mode = "pipeline" /\ last = "fill" /\ pc = "persist"
    /\ Len(df.rows) > 0
    /\ \E c \in Range(df.cols) : df.dtype[c] = "float64"


====
